---- MODULE Spec2Model ----
(***************************************************************************)
(* matchFuzzy / sort of src/src/index.ts as a state machine.               *)
(*                                                                         *)
(* A JavaScript string is a sequence of UTF-16 code units; here a string   *)
(* is a sequence of one-unit strings.  Positions are 0-based as in the     *)
(* code; TLA+ sequences are 1-based, so unit p of s is s[p + 1].           *)
(***************************************************************************)
EXTENDS Integers, Sequences, FiniteSets, TLC

\* ------------------------------------------------------------------ bounds
MaxTargetLen == 3
MaxQueryLen == 2
MaxLimit == 1
MaxField == 2

\* ---------------------------------------------------------------- alphabet
\* The code units the inputs are drawn from.  "U+0130" is LATIN CAPITAL
\* LETTER I WITH DOT ABOVE, "U+0307" is COMBINING DOT ABOVE.
Alphabet == {"i", "I", "U+0130", "U+0307"}
LimitKeys == {"i", "I"}

RECURSIVE SeqsUpTo(_, _)
SeqsUpTo(S, n) ==
    IF n = 0 THEN {<<>>}
    ELSE LET shorter == SeqsUpTo(S, n - 1)
         IN  shorter \cup {Append(s, c) : s \in shorter, c \in S}

Strings(n) == SeqsUpTo(Alphabet, n)

\* characterLimit objects: a function from its own keys to numbers
CharacterLimits ==
    UNION {[K -> 0..MaxLimit] : K \in SUBSET LimitKeys}

\* ------------------------------------------------------------------- state
VARIABLES
    query, target, characterLimit,      \* matchFuzzy's parameters
    pc,                                 \* position in matchFuzzy
    queryLowerCased, targetLowerCased,  \* lines 26-27
    occurencesPerChar,                  \* line 28
    i,                                  \* loop variable of line 29
    combinations,                       \* line 40
    setIdx,                             \* position of the for-of of line 43
    bestCombination,                    \* line 39
    result,                             \* matchFuzzy's return value
    a, b,                               \* sort's parameters
    sortPc, cmp                         \* position in sort, its return value

matchVars == <<query, target, characterLimit, pc, queryLowerCased,
               targetLowerCased, occurencesPerChar, i, combinations, setIdx,
               bestCombination, result>>
sortVars == <<a, b, sortPc, cmp>>
vars == <<matchVars, sortVars>>

\* JavaScript's null, and "not returned yet"
Null == [null |-> TRUE]
Pending == [pending |-> TRUE]

\* ----------------------------------------------------- String.toLowerCase
\* Unicode's default lowercase mapping of one code unit (ECMAScript
\* String.prototype.toLowerCase, SpecialCasing.txt: U+0130 -> U+0069 U+0307).
LowerUnit(c) ==
    CASE c = "I" -> <<"i">>
      [] c = "U+0130" -> <<"i", "U+0307">>
      [] OTHER -> <<c>>

RECURSIVE toLowerCase(_)
toLowerCase(s) ==
    IF s = <<>> THEN <<>> ELSE LowerUnit(Head(s)) \o toLowerCase(Tail(s))

\* ------------------------------------------------- String.indexOf (1 unit)
\* target.indexOf(character, startIndex): the first position >= startIndex
\* holding character, or -1.
RECURSIVE indexOf(_, _, _)
indexOf(s, character, startIndex) ==
    IF startIndex >= Len(s) THEN -1
    ELSE IF s[startIndex + 1] = character THEN startIndex
    ELSE indexOf(s, character, startIndex + 1)

\* String.substring(from, to) for 0 <= from, to <= length (swaps when from > to)
substring(s, from, to) ==
    LET lo == IF from <= to THEN from ELSE to
        hi == IF from <= to THEN to ELSE from
    IN  SubSeq(s, lo + 1, hi)

\* ------------------------------------------------------------ findOccurences
RECURSIVE findOccurencesFrom(_, _, _, _)
findOccurencesFrom(s, character, startIndex, res) ==
    LET matchIndex == indexOf(s, character, startIndex)
    IN  IF matchIndex >= 0
        THEN findOccurencesFrom(s, character, matchIndex + 1, Append(res, matchIndex))
        ELSE res

findOccurences(s, character, startIndex) ==
    findOccurencesFrom(s, character, startIndex, <<>>)

\* ------------------------------------------------------- calculateExtraChars
RECURSIVE calculateExtraCharsFrom(_, _, _, _)
calculateExtraCharsFrom(characterPositions, k, previousCharPosition, total) ==
    IF k > Len(characterPositions) THEN total
    ELSE calculateExtraCharsFrom(characterPositions, k + 1, characterPositions[k],
                                 total + characterPositions[k] - previousCharPosition - 1)

calculateExtraChars(characterPositions) ==
    calculateExtraCharsFrom(characterPositions, 2, characterPositions[1], 0)

\* ---------------------------------------------- hasLessThanMaximumCharacters
\* mutant of LimitExceeded: the span of line 82 includes the last position
LimitExceededInclusive(s, foundChars, charLimits, character) ==
    LET characterLowerCased == toLowerCase(<<character>>)[1]
        subString == substring(s, foundChars[1], foundChars[Len(foundChars)] + 1)
        count == Len(findOccurences(subString, characterLowerCased, 0))
    IN  /\ characterLowerCased \in DOMAIN charLimits
        /\ count > charLimits[characterLowerCased]

\* One iteration of the for-in: TRUE when the key makes the function return
\* false.  charLimits[characterLowerCased] is undefined when the lowercased
\* key is not itself a key, and (n > undefined) is false.  The keys of
\* LimitKeys lowercase to one code unit, so the search is for one unit.
LimitExceeded(s, foundChars, charLimits, character) ==
    LET characterLowerCased == toLowerCase(<<character>>)[1]
        subString == substring(s, foundChars[1], foundChars[Len(foundChars)])
        count == Len(findOccurences(subString, characterLowerCased, 0))
    IN  /\ characterLowerCased \in DOMAIN charLimits
        /\ count > charLimits[characterLowerCased]

hasLessThanMaximumCharacters(s, foundChars, charLimits) ==
    \A character \in DOMAIN charLimits :
        ~LimitExceeded(s, foundChars, charLimits, character)

\* ---------------------------------------------------- getPossibleCombinations
\* result is the shared array of chains; every operator returns it as the
\* call leaves it.  depth is 0-based as in the code.
RECURSIVE getPossibleCombinationsAt(_, _, _)
RECURSIVE forEachSet(_, _, _, _, _)
RECURSIVE forOccurence(_, _, _, _)

\* mutant of forEachSet: line 110 compares with <= instead of <
forEachSetNotStrict(characterPositions, res, depth, occurence, k) ==
    IF k > Len(res) THEN res
    ELSE LET set == res[k]
         IN  IF depth = Len(set) /\ set[Len(set)] <= occurence
             THEN LET pushed == [res EXCEPT ![k] = Append(set, occurence)]
                      after == IF Len(characterPositions) - 1 > depth
                               THEN getPossibleCombinationsAt(characterPositions, pushed, depth + 1)
                               ELSE pushed
                  IN  forEachSet(characterPositions, after, depth, occurence, k + 1)
             ELSE forEachSet(characterPositions, res, depth, occurence, k + 1)

\* result.forEach((set, i) => ...) of lines 108-117, from index k on
forEachSet(characterPositions, res, depth, occurence, k) ==
    IF k > Len(res) THEN res
    ELSE LET set == res[k]
         IN  IF depth = Len(set) /\ set[Len(set)] < occurence
             THEN LET pushed == [res EXCEPT ![k] = Append(set, occurence)]
                      after == IF Len(characterPositions) - 1 > depth
                               THEN getPossibleCombinationsAt(characterPositions, pushed, depth + 1)
                               ELSE pushed
                  IN  forEachSet(characterPositions, after, depth, occurence, k + 1)
             ELSE forEachSet(characterPositions, res, depth, occurence, k + 1)

\* for (const occurence of currentOccurence) of line 107, from index o on
forOccurence(characterPositions, res, depth, o) ==
    LET currentOccurence == characterPositions[depth + 1]
    IN  IF o > Len(currentOccurence) THEN res
        ELSE forOccurence(characterPositions,
                          forEachSet(characterPositions, res, depth, currentOccurence[o], 1),
                          depth, o + 1)

\* the else branch of line 106: a call with depth > 0
getPossibleCombinationsAt(characterPositions, res, depth) ==
    forOccurence(characterPositions, res, depth, 1)

\* mutant of RemoveTooSmall: the loop of lines 100-105 is missing
RemoveNothing(res, n) == res

\* lines 100-105: splice out the sets that are too small
RemoveTooSmall(res, n) == SelectSeq(res, LAMBDA set : Len(set) = n)

\* the call of line 41: depth = 0
getPossibleCombinations(characterPositions, res) ==
    LET currentOccurence == characterPositions[1]
        seeded == res \o [k \in 1..Len(currentOccurence) |-> <<currentOccurence[k]>>]
        grown == IF Len(characterPositions) > 1
                 THEN getPossibleCombinationsAt(characterPositions, seeded, 1)
                 ELSE seeded
    IN  RemoveTooSmall(grown, Len(characterPositions))

\* ------------------------------------------------------------------- sort
\* mutant of sort: offset is compared before extraChars
sortOffsetFirst(x, y) ==
    IF x.offset # y.offset THEN (IF x.offset < y.offset THEN -1 ELSE 1)
    ELSE IF x.extraChars # y.extraChars THEN (IF x.extraChars < y.extraChars THEN -1 ELSE 1)
    ELSE IF x.trailingChars # y.trailingChars
         THEN (IF x.trailingChars < y.trailingChars THEN -1 ELSE 1)
    ELSE 0

sort(x, y) ==
    IF x.extraChars # y.extraChars THEN (IF x.extraChars < y.extraChars THEN -1 ELSE 1)
    ELSE IF x.offset # y.offset THEN (IF x.offset < y.offset THEN -1 ELSE 1)
    ELSE IF x.trailingChars # y.trailingChars
         THEN (IF x.trailingChars < y.trailingChars THEN -1 ELSE 1)
    ELSE 0

\* --------------------------------------------------------- matchFuzzy steps
\* mutant of IsDegenerate: line 24 without the comparison of the lengths
IsDegenerateNoLengthCheck(q, t) == t = <<>> \/ q = <<>>

\* line 24
IsDegenerate(q, t) == t = <<>> \/ q = <<>> \/ Len(t) < Len(q)

\* mutant of StartIndex: the bound follows the previous character's last
\* occurrence instead of its first
StartIndexAfterLast(occ, idx) == IF Len(occ) > 0 THEN occ[idx][Len(occ[idx])] + 1 ELSE 0

\* line 31
StartIndex(occ, idx) == IF Len(occ) > 0 THEN occ[idx][1] + 1 ELSE 0

\* mutant of Improves: line 47 compares with >= instead of >
ImprovesOnTie(best, extraCharCount) == best = Null \/ best.extraChars >= extraCharCount

\* line 47
Improves(best, extraCharCount) == best = Null \/ best.extraChars > extraCharCount

\* lines 52-59
MakeResult(t, best) ==
    IF best # Null
    THEN [offset |-> best.set[1],
          positions |-> best.set,
          extraChars |-> best.extraChars,
          trailingChars |-> Len(t) - (best.set[Len(best.set)] + 1)]
    ELSE Null

SortIdle == /\ a = Null /\ b = Null /\ sortPc = "idle" /\ cmp = Null

Init ==
    /\ query \in Strings(MaxQueryLen)
    /\ target \in Strings(MaxTargetLen)
    /\ characterLimit \in CharacterLimits
    /\ pc = "call"
    /\ queryLowerCased = <<>>
    /\ targetLowerCased = <<>>
    /\ occurencesPerChar = <<>>
    /\ i = 0
    /\ combinations = <<>>
    /\ setIdx = 0
    /\ bestCombination = Null
    /\ result = Pending
    /\ SortIdle

\* lines 24-28: the guard, then the lowercasing
Call ==
    /\ pc = "call"
    /\ IF IsDegenerate(query, target)
       THEN /\ pc' = "done"
            /\ result' = Null
            /\ UNCHANGED <<queryLowerCased, targetLowerCased>>
       ELSE /\ pc' = "index"
            /\ queryLowerCased' = toLowerCase(query)
            /\ targetLowerCased' = toLowerCase(target)
            /\ UNCHANGED result
    /\ UNCHANGED <<query, target, characterLimit, occurencesPerChar, i,
                   combinations, setIdx, bestCombination, sortVars>>

\* lines 29-37: one iteration of the indexing loop
IndexStep ==
    /\ pc = "index"
    /\ i < Len(queryLowerCased)
    /\ LET character == queryLowerCased[i + 1]
           startIndex == StartIndex(occurencesPerChar, i)
           occurences == findOccurences(targetLowerCased, character, startIndex)
       IN  IF Len(occurences) = 0
           THEN /\ pc' = "done"
                /\ result' = Null
                /\ UNCHANGED <<occurencesPerChar, i>>
           ELSE /\ occurencesPerChar' = Append(occurencesPerChar, occurences)
                /\ i' = i + 1
                /\ UNCHANGED <<pc, result>>
    /\ UNCHANGED <<query, target, characterLimit, queryLowerCased, targetLowerCased,
                   combinations, setIdx, bestCombination, sortVars>>

\* lines 39-41: the loop is over, enumerate
Enumerate ==
    /\ pc = "index"
    /\ i = Len(queryLowerCased)
    /\ combinations' = getPossibleCombinations(occurencesPerChar, <<>>)
    /\ bestCombination' = Null
    /\ setIdx' = 1
    /\ pc' = "select"
    /\ UNCHANGED <<query, target, characterLimit, queryLowerCased, targetLowerCased,
                   occurencesPerChar, i, result, sortVars>>

\* lines 43-50: one iteration of the selection loop
SelectStep ==
    /\ pc = "select"
    /\ setIdx <= Len(combinations)
    /\ LET set == combinations[setIdx]
       IN  IF ~hasLessThanMaximumCharacters(targetLowerCased, set, characterLimit)
           THEN /\ setIdx' = setIdx + 1
                /\ UNCHANGED <<bestCombination, pc>>
           ELSE LET extraCharCount == calculateExtraChars(set)
                    best == IF Improves(bestCombination, extraCharCount)
                            THEN [extraChars |-> extraCharCount, set |-> set]
                            ELSE bestCombination
                IN  /\ bestCombination' = best
                    /\ IF best.extraChars = 0
                       THEN /\ pc' = "return"
                            /\ UNCHANGED setIdx
                       ELSE /\ setIdx' = setIdx + 1
                            /\ UNCHANGED pc
    /\ UNCHANGED <<query, target, characterLimit, queryLowerCased, targetLowerCased,
                   occurencesPerChar, i, combinations, result, sortVars>>

\* lines 52-59
Return ==
    /\ \/ pc = "return"
       \/ pc = "select" /\ setIdx > Len(combinations)
    /\ result' = MakeResult(target, bestCombination)
    /\ pc' = "done"
    /\ UNCHANGED <<query, target, characterLimit, queryLowerCased, targetLowerCased,
                   occurencesPerChar, i, combinations, setIdx, bestCombination, sortVars>>

Next == Call \/ IndexStep \/ Enumerate \/ SelectStep \/ Return

Spec == Init /\ [][Next]_vars

\* ------------------------------------------------------------ the comparator
\* MatchResult values handed to sort: every triple of fields up to MaxField,
\* with the position lists of a one-, two- or three-character match that
\* give that offset and that extraChars.
PositionsFor(offset, extraChars) ==
    {<<offset, offset + extraChars + 1>>}
        \cup (IF extraChars = 0 THEN {<<offset>>}
              ELSE {<<offset, offset + 1, offset + extraChars + 2>>})

MatchResults ==
    UNION {{[offset |-> o, positions |-> ps, extraChars |-> e, trailingChars |-> t] :
                ps \in PositionsFor(o, e)} :
           o \in 0..MaxField, e \in 0..MaxField, t \in 0..MaxField}

MatchIdle ==
    /\ query = <<>> /\ target = <<>> /\ characterLimit = <<>>
    /\ pc = "idle"
    /\ queryLowerCased = <<>> /\ targetLowerCased = <<>>
    /\ occurencesPerChar = <<>> /\ i = 0 /\ combinations = <<>> /\ setIdx = 0
    /\ bestCombination = Null /\ result = Pending

InitSort ==
    /\ MatchIdle
    /\ a \in MatchResults
    /\ b \in MatchResults
    /\ sortPc = "call"
    /\ cmp = Null

\* lines 68-77
SortCall ==
    /\ sortPc = "call"
    /\ cmp' = sort(a, b)
    /\ sortPc' = "done"
    /\ UNCHANGED <<a, b, matchVars>>

NextSort == SortCall

SpecSort == InitSort /\ [][NextSort]_vars

\* ======================================================================
\* What the claims speak of, written without the code's operators.
\* ======================================================================
Done == pc = "done"
Returned == Done /\ result # Null
NoLimit == DOMAIN characterLimit = {}
\* the loop of lines 29-37 ran to its end and line 41 was executed
Enumerated == pc \in {"select", "return"} \/ (Done /\ i > 0 /\ i = Len(queryLowerCased))

Last(s) == s[Len(s)]
StrictlyIncreasing(s) == \A k \in 1..Len(s) - 1 : s[k] < s[k + 1]

\* every strictly increasing sequence of positions of t spelling q
RECURSIVE EmbeddingsOfPrefix(_, _, _)
EmbeddingsOfPrefix(q, t, k) ==
    IF k = 0 THEN {<<>>}
    ELSE UNION {{Append(c, p) : p \in {x \in 0..Len(t) - 1 :
                                          /\ t[x + 1] = q[k]
                                          /\ (k = 1 \/ x > c[k - 1])}} :
                c \in EmbeddingsOfPrefix(q, t, k - 1)}

Embeddings(q, t) == EmbeddingsOfPrefix(q, t, Len(q))

\* the embeddings of the lowercased query in the lowercased target
AllEmbeddings == Embeddings(toLowerCase(query), toLowerCase(target))

\* the sum for k in 1..len-1 of (positions[k] - positions[k-1] - 1)
RECURSIVE SumOfGaps(_, _)
SumOfGaps(s, k) ==
    IF k < 2 THEN 0 ELSE (s[k] - s[k - 1] - 1) + SumOfGaps(s, k - 1)

Gaps(s) == SumOfGaps(s, Len(s))

\* occurrences of unit c in t within [first, last) of chain s
CountInSpan(c, t, s) ==
    Cardinality({p \in s[1]..(Last(s) - 1) : t[p + 1] = c})

\* chain s of the lowercased target t keeps every limit, each key read
\* case-insensitively
KeepsLimitsIn(t, s) ==
    \A key \in DOMAIN characterLimit :
        CountInSpan(LowerUnit(key)[1], t, s) <= characterLimit[key]

KeepsLimits(s) == KeepsLimitsIn(toLowerCase(target), s)

LowercaseKeys == \A key \in DOMAIN characterLimit : LowerUnit(key) = <<key>>

\* lowercasing lengthens neither string (no U+0130 in them)
SameLengthLowercase ==
    /\ Len(toLowerCase(query)) = Len(query)
    /\ Len(toLowerCase(target)) = Len(target)

\* ---------------------------------------------------------------- C1
\* C1: a returned result's positions are as many as the query has
\* characters, strictly increasing, each a valid index of target, and the
\* lowercased target character at positions[k] is the lowercased query
\* character k.
C1_PositionsSpellQuery ==
    Returned =>
        /\ Len(result.positions) = Len(query)
        /\ StrictlyIncreasing(result.positions)
        /\ \A k \in 1..Len(result.positions) :
            /\ result.positions[k] \in 0..Len(target) - 1
            /\ k <= Len(toLowerCase(query))
            /\ result.positions[k] < Len(toLowerCase(target))
            /\ toLowerCase(target)[result.positions[k] + 1] = toLowerCase(query)[k]

\* What the code does keep: the same statement about the lowercased strings
\* (it coincides with C1 when lowercasing keeps every length).
C1_OnLowercasedStrings ==
    Returned => result.positions \in AllEmbeddings

\* ---------------------------------------------------------------- C2
\* C2 as stated: with no limits and a non-empty query a result is
\* returned exactly when the lowercased query is a subsequence of the
\* lowercased target.
C2_ResultIffSubsequence ==
    (Done /\ NoLimit /\ query # <<>>) =>
        (result # Null <=> AllEmbeddings # {})

\* C2 amended: the same, for a query no longer than the target (line 24
\* compares the lengths before lowercasing).
C2_ResultIffSubsequenceWhenNotLonger ==
    (Done /\ NoLimit /\ query # <<>> /\ Len(query) <= Len(target)) =>
        (result # Null <=> AllEmbeddings # {})

\* the indexer's lower bound left an occurrence of the second query
\* character out (one before the first character's first occurrence), and
\* a result came back
C2_Witness ==
    /\ Done /\ NoLimit /\ result # Null /\ SameLengthLowercase
    /\ Len(queryLowerCased) >= 2
    /\ \E p \in 0..Len(targetLowerCased) - 1 :
        /\ targetLowerCased[p + 1] = queryLowerCased[2]
        /\ p < occurencesPerChar[1][1]

\* ---------------------------------------------------------------- C3
\* C3: with no limits, a returned result's extraChars is the least sum of
\* gaps over all embeddings of the query in the target; when the query
\* occurs contiguously that is 0.
C3_ExtraCharsMinimal ==
    (Returned /\ NoLimit) =>
        LET all == AllEmbeddings
        IN  /\ \A e \in all : result.extraChars <= Gaps(e)
            /\ \E e \in all : result.extraChars = Gaps(e)

\* several embeddings with different sums of gaps, the chain of the first
\* starting position not being the best one
C3_Witness ==
    /\ Returned /\ NoLimit /\ SameLengthLowercase
    /\ \E e \in AllEmbeddings : Gaps(e) > result.extraChars
    /\ \E e \in AllEmbeddings : e[1] < result.offset

\* ---------------------------------------------------------------- C4
\* C4: a returned result keeps every configured limit, whatever the letter
\* case of the key: lowercase(key) occurs at most characterLimit[key]
\* times in the lowercased target within [positions[0], positions[last]).
C4_LimitsKeptForEveryKey ==
    Returned => KeepsLimits(result.positions)

\* ---------------------------------------------------------------- C5
\* C5: a returned result has offset = positions[0], trailingChars =
\* target.length - (positions[last] + 1), extraChars = the sum of the gaps,
\* and all three are >= 0.
C5_FieldsConsistentAndNonNegative ==
    Returned =>
        /\ result.offset = result.positions[1]
        /\ result.trailingChars = Len(target) - (Last(result.positions) + 1)
        /\ result.extraChars = Gaps(result.positions)
        /\ result.offset >= 0
        /\ result.trailingChars >= 0
        /\ result.extraChars >= 0

\* What the code keeps of C5: the three equations, and the signs whenever
\* lowercasing keeps the target's length.
C5_WhenLowercasingKeepsLength ==
    Returned =>
        /\ result.offset = result.positions[1]
        /\ result.trailingChars = Len(target) - (Last(result.positions) + 1)
        /\ result.extraChars = Gaps(result.positions)
        /\ result.offset >= 0
        /\ result.extraChars >= 0
        /\ Len(toLowerCase(target)) = Len(target) => result.trailingChars >= 0

\* ---------------------------------------------------------------- C7
\* C7: for an empty query, an empty target or a target shorter than the
\* query, matchFuzzy returns null whatever the limits, and never enters the
\* indexing loop or the enumeration.
C7_DegenerateInputsReturnNull ==
    (query = <<>> \/ target = <<>> \/ Len(target) < Len(query)) =>
        /\ pc \in {"call", "done"}
        /\ Done => result = Null
        /\ queryLowerCased = <<>> /\ targetLowerCased = <<>>
        /\ occurencesPerChar = <<>> /\ i = 0
        /\ combinations = <<>> /\ setIdx = 0 /\ bestCombination = Null

\* a non-empty target shorter than its query, with limits configured
C7_Witness ==
    /\ Done /\ result = Null
    /\ target # <<>> /\ Len(target) < Len(query)
    /\ ~NoLimit

\* ---------------------------------------------------------------- C8
\* every strictly increasing sequence taking one position from each list,
\* in the lists' order
RECURSIVE ChainsOfPrefix(_, _)
ChainsOfPrefix(lists, k) ==
    IF k = 0 THEN {<<>>}
    ELSE UNION {{Append(c, lists[k][j]) :
                    j \in {x \in 1..Len(lists[k]) : k = 1 \/ lists[k][x] > c[k - 1]}} :
                c \in ChainsOfPrefix(lists, k - 1)}

AllChains == ChainsOfPrefix(occurencesPerChar, Len(occurencesPerChar))
Enumeration == {combinations[k] : k \in 1..Len(combinations)}

\* C8 as stated: the enumerator's output is exactly the set of strictly
\* increasing sequences that take one position from each occurrence list.
C8_EveryIncreasingChainEnumerated ==
    Enumerated => Enumeration = AllChains

\* C8 amended: the output holds only such sequences, at most one per first
\* position and in ascending order of it, and for every such sequence the
\* output holds the one with the same first position that takes at each
\* depth the smallest later occurrence (so it is positionwise <=).
C8_OneEarliestChainPerStart ==
    Enumerated =>
        LET all == AllChains
        IN  /\ Enumeration \subseteq all
            /\ \A k \in 1..Len(combinations) - 1 :
                combinations[k][1] < combinations[k + 1][1]
            /\ \A c \in all : \E e \in Enumeration :
                /\ e[1] = c[1]
                /\ \A j \in 1..Len(c) : e[j] <= c[j]

\* two chains enumerated, one start without a complete chain, and an
\* increasing sequence the enumerator left out
C8_Witness ==
    /\ Enumerated /\ SameLengthLowercase
    /\ Len(combinations) >= 2
    /\ Len(combinations) < Len(occurencesPerChar[1])
    /\ AllChains \ Enumeration # {}

\* ---------------------------------------------------------------- C9
\* the chains the filter of line 44 lets through, by index
Surviving ==
    {k \in 1..Len(combinations) :
        hasLessThanMaximumCharacters(targetLowerCased, combinations[k], characterLimit)}
Least(S) == CHOOSE x \in S : \A y \in S : x <= y
BestSurviving ==
    LET surviving == Surviving
    IN  {k \in surviving : \A l \in surviving : Gaps(combinations[k]) <= Gaps(combinations[l])}
PerfectSurviving == {k \in Surviving : Gaps(combinations[k]) = 0}

\* C9: of the enumerated chains that pass the filter, the first in
\* enumeration order with the least extraChars is returned (so on a tie the
\* smallest offset), none surviving gives null, and the scan stops at the
\* first surviving chain with extraChars 0.
C9_FirstBestSurvivingChain ==
    (Done /\ Enumerated) =>
        LET best == BestSurviving
            perfect == PerfectSurviving
        IN  /\ best = {} => result = Null
            /\ best # {} =>
                /\ result # Null
                /\ result.positions = combinations[Least(best)]
                /\ result.extraChars = Gaps(combinations[Least(best)])
                /\ \A k \in best : result.offset <= combinations[k][1]
            /\ setIdx = IF perfect # {} THEN Least(perfect)
                        ELSE Len(combinations) + 1

\* a tie on a non-zero extraChars between two surviving chains
C9_Witness ==
    /\ Done /\ Enumerated
    /\ Cardinality(BestSurviving) >= 2
    /\ result # Null
    /\ result.extraChars > 0

\* the scan stopped at a perfect chain with chains left unscanned
C9_WitnessEarlyStop ==
    /\ Done /\ Enumerated
    /\ PerfectSurviving # {}
    /\ setIdx < Len(combinations)
    /\ setIdx > 1

\* ---------------------------------------------------------------- C10
SomeEmbeddingKeepsLimits ==
    LET t == toLowerCase(target)
    IN  \E e \in Embeddings(toLowerCase(query), t) : KeepsLimitsIn(t, e)

\* C10 as stated: with lowercase keys and a non-empty query, a result is
\* returned whenever some embedding keeps every limit.
C10_ResultWhenSomeEmbeddingKeepsLimits ==
    (Done /\ LowercaseKeys /\ query # <<>>) =>
        (SomeEmbeddingKeepsLimits => result # Null)

\* C10 amended: the same, for a query no longer than the target.
C10_ResultWhenSomeEmbeddingKeepsLimitsWhenNotLonger ==
    (Done /\ LowercaseKeys /\ query # <<>> /\ Len(query) <= Len(target)) =>
        (SomeEmbeddingKeepsLimits => result # Null)

\* limits are configured, an embedding starting before the returned one
\* breaks them, and a result is returned
C10_Witness ==
    /\ Returned /\ LowercaseKeys /\ ~NoLimit /\ SameLengthLowercase
    /\ \E e \in AllEmbeddings : ~KeepsLimits(e) /\ e[1] < result.offset

\* ---------------------------------------------------------------- C6
Sign(x) == IF x < 0 THEN -1 ELSE IF x > 0 THEN 1 ELSE 0
\* the triple (extraChars, offset, trailingChars) as one number
Key(r) == (r.extraChars * (MaxField + 1) + r.offset) * (MaxField + 1) + r.trailingChars

\* C6: sort is the lexicographic order on (extraChars, offset,
\* trailingChars): -1 for the smaller triple, 1 for the larger, 0 exactly
\* for equal triples; positions do not count, and sort(a, b) = -sort(b, a).
C6_SortIsLexicographic ==
    sortPc = "done" =>
        /\ cmp = Sign(Key(a) - Key(b))
        /\ cmp = 0 <=> /\ a.extraChars = b.extraChars
                       /\ a.offset = b.offset
                       /\ a.trailingChars = b.trailingChars
        /\ \A r \in MatchResults :
            (Key(r) = Key(b)) => (sort(a, r) = cmp /\ sort(r, a) = -cmp)

\* extraChars decides against offset and trailingChars
C6_Witness ==
    /\ sortPc = "done"
    /\ a.extraChars < b.extraChars
    /\ a.offset > b.offset
    /\ a.trailingChars > b.trailingChars
    /\ a.positions # b.positions
    /\ cmp = -1

====
